---- MODULE Spec2Model ----
(***************************************************************************)
(* Model of the Queryable implementation of IsAStruct (src/src/lib.rs):    *)
(* check_descriptor, the shape validator, and decode, the row decoder.     *)
(* Both are modelled statement by statement as small state machines so     *)
(* that the order of the checks, the index arithmetic and the element      *)
(* accesses are visible to the properties.                                 *)
(*                                                                         *)
(* The edgedb_protocol crate (DescriptorContext, DecodeTupleLike, the      *)
(* scalar Queryable impls) is an external dependency; its operations are   *)
(* modelled at the call sites of lib.rs by their interface behaviour.      *)
(***************************************************************************)
EXTENDS Integers, Sequences, FiniteSets, TLC

VARIABLES
    descriptors,  \* ctx.descriptors: the descriptor catalog, addressed by TypePos
    flags,        \* has_implicit_tid / has_implicit_tname / has_implicit_id
    type_pos,     \* the TypePos handed to check_descriptor
    buf,          \* the row buffer handed to decode
    chk,          \* the check_descriptor calls: position and locals of each
    dcd           \* the decode call: position, cursor and locals

vars == <<descriptors, flags, type_pos, buf, chk, dcd>>

(***************************************************************************)
(* Bounds of the model.                                                    *)
(***************************************************************************)
\* Elements a shape may carry after the implicit prefix and the three fields.
MaxSurplus == 1
\* Elements a row buffer may hold.
MaxRowLen == 6

(***************************************************************************)
(* Data: descriptors, shape elements, mismatch values.                     *)
(***************************************************************************)
Range(s) == {s[i] : i \in 1..Len(s)}

\* Variant of Fields in which name is declared `Option<String>`.
FieldsOptionalName ==
    << [name |-> "name",    ty |-> "str",   optional |-> TRUE],
       [name |-> "number",  ty |-> "int16", optional |-> FALSE],
       [name |-> "is_cool", ty |-> "bool",  optional |-> FALSE] >>

\* pub struct IsAStruct { name: String, number: i16, is_cool: bool }; ty is
\* the scalar the field's Queryable impl accepts, optional whether the
\* field's type is an Option.
Fields ==
    << [name |-> "name",    ty |-> "str",   optional |-> FALSE],
       [name |-> "number",  ty |-> "int16", optional |-> FALSE],
       [name |-> "is_cool", ty |-> "bool",  optional |-> FALSE] >>

FlagSets == [tid : BOOLEAN, tname : BOOLEAN, id : BOOLEAN]

NumSet(f) == (IF f.tid THEN 1 ELSE 0) + (IF f.tname THEN 1 ELSE 0)
                + (IF f.id THEN 1 ELSE 0)

\* Descriptor::BaseScalar and Descriptor::ObjectShape, the variants the
\* `match desc` of check_descriptor tells apart.
BaseScalar(n) == [tag |-> "BaseScalar", name |-> n, elements |-> <<>>]
ObjectShape(els) == [tag |-> "ObjectShape", name |-> "", elements |-> els]

\* ShapeElement { name, type_pos, flag_implicit }
Elem(n, t, i) == [name |-> n, type_pos |-> t, flag_implicit |-> i]

\* The scalars every catalog of the model starts with; TypePos is 0-based.
ScalarNames == <<"str", "int16", "bool", "uuid">>
PosOf(n) == CHOOSE p \in 0..(Len(ScalarNames) - 1) : ScalarNames[p + 1] = n
ShapePos == Len(ScalarNames)
BadPos == Len(ScalarNames) + 1

\* Results of a call.  One record shape for all of them.
Res(kind, unexpected, exp, actual, count) ==
    [kind |-> kind, unexpected |-> unexpected, expected |-> exp,
     actual |-> actual, count |-> count]
Pending == Res("Pending", "", "", 0, 0)
Ok == Res("Ok", "", "", 0, 0)
\* `shape.elements[idx]` with idx >= shape.elements.len(): the index
\* operation of Vec panics.
IndexPanic == Res("Panic", "index out of bounds", "", 0, 0)

\* ctx.get(type_pos) of a position outside the catalog.
BadPosition == Res("BadPosition", "", "", 0, 0)
\* ctx.wrong_type(desc, expected)
wrong_type(desc, exp) == Res("WrongType", desc.tag, exp, 0, 0)
\* ctx.expected(what)
expected(what) == Res("ExpectedImplicit", "", what, 0, 0)
\* ctx.wrong_field(expected, unexpected)
wrong_field(exp, unexpected) == Res("WrongField", unexpected, exp, 0, 0)
\* ctx.field_number(shape.elements.len(), idx)
field_number(len, idx) == Res("FieldCountMismatch", "", "", len, idx)

\* ctx.get(pos)
InCatalog(pos) == pos >= 0 /\ pos < Len(descriptors)
get(pos) == descriptors[pos + 1]

\* <String|i16|bool as Queryable>::check_descriptor(ctx, pos): the scalar
\* at pos must be the base scalar ty.
check_scalar(ty, pos) ==
    IF ~InCatalog(pos) THEN BadPosition
    ELSE IF get(pos).tag = "BaseScalar" /\ get(pos).name = ty THEN Ok
    ELSE wrong_type(get(pos), ty)

(***************************************************************************)
(* check_descriptor, one action per statement.                             *)
(***************************************************************************)
CheckCalls == {"first", "second"}

NoElem == Elem("", 0, FALSE)

\* A call not yet started ("off": this call is not made at all).
ChkStart(pc) ==
    [pc |-> pc, idx |-> 0, k |-> 1, shape |-> <<>>, el |-> NoElem,
     result |-> Pending, trace |-> <<>>]

Access(what, idx) == [what |-> what, idx |-> idx]

ChkReturn(c, r) ==
    chk' = [chk EXCEPT ![c].pc = "done", ![c].result = r]

\* Variant of ChkFrame for a validator that holds the context mutably and
\* clears the implicit flags it has been handed.
ChkFrameClearsFlags ==
    /\ flags' = [tid |-> FALSE, tname |-> FALSE, id |-> FALSE]
    /\ UNCHANGED <<descriptors, type_pos, buf, dcd>>

\* check_descriptor takes `ctx: &DescriptorContext` and `type_pos` by value:
\* nothing but the call's own locals changes.
ChkFrame == UNCHANGED <<descriptors, flags, type_pos, buf, dcd>>

\* let desc = ctx.get(type_pos)?;
CheckGet(c) ==
    /\ chk[c].pc = "get"
    /\ IF InCatalog(type_pos)
       THEN chk' = [chk EXCEPT ![c].pc = "match"]
       ELSE ChkReturn(c, BadPosition)
    /\ ChkFrame

\* let shape = match desc { ObjectShape(shape) => shape, _ => return Err(wrong_type) };
\* let mut idx = 0;
CheckMatch(c) ==
    /\ chk[c].pc = "match"
    /\ IF get(type_pos).tag = "ObjectShape"
       THEN chk' = [chk EXCEPT ![c].pc = "tid",
                               ![c].shape = get(type_pos).elements,
                               ![c].idx = 0]
       ELSE ChkReturn(c, wrong_type(get(type_pos), "str"))
    /\ ChkFrame

\* Variant of ImplicitStep that forgets `idx += 1`.
ImplicitStepNoAdvance(c, isSet, what, next) ==
    LET s == chk[c] IN
    IF ~isSet
    THEN chk' = [chk EXCEPT ![c].pc = next]
    ELSE IF s.idx >= Len(s.shape)
    THEN chk' = [chk EXCEPT ![c].pc = "done", ![c].result = IndexPanic,
                            ![c].trace = Append(@, Access(what, s.idx))]
    ELSE IF ~s.shape[s.idx + 1].flag_implicit
    THEN chk' = [chk EXCEPT ![c].pc = "done", ![c].result = expected(what),
                            ![c].trace = Append(@, Access(what, s.idx))]
    ELSE chk' = [chk EXCEPT ![c].pc = next,
                            ![c].trace = Append(@, Access(what, s.idx))]

\* Variant of ImplicitStep that advances over the element without testing
\* its flag_implicit.
ImplicitStepNoTest(c, isSet, what, next) ==
    LET s == chk[c] IN
    IF ~isSet
    THEN chk' = [chk EXCEPT ![c].pc = next]
    ELSE IF s.idx >= Len(s.shape)
    THEN chk' = [chk EXCEPT ![c].pc = "done", ![c].result = IndexPanic,
                            ![c].trace = Append(@, Access(what, s.idx))]
    ELSE chk' = [chk EXCEPT ![c].pc = next, ![c].idx = s.idx + 1,
                            ![c].trace = Append(@, Access(what, s.idx))]

\* if ctx.has_implicit_X { if !shape.elements[idx].flag_implicit { return Err(..) } idx += 1; }
ImplicitStep(c, isSet, what, next) ==
    LET s == chk[c] IN
    IF ~isSet
    THEN chk' = [chk EXCEPT ![c].pc = next]
    ELSE IF s.idx >= Len(s.shape)
    THEN chk' = [chk EXCEPT ![c].pc = "done", ![c].result = IndexPanic,
                            ![c].trace = Append(@, Access(what, s.idx))]
    ELSE IF ~s.shape[s.idx + 1].flag_implicit
    THEN chk' = [chk EXCEPT ![c].pc = "done", ![c].result = expected(what),
                            ![c].trace = Append(@, Access(what, s.idx))]
    ELSE chk' = [chk EXCEPT ![c].pc = next, ![c].idx = s.idx + 1,
                            ![c].trace = Append(@, Access(what, s.idx))]

CheckImplicitTid(c) ==
    /\ chk[c].pc = "tid"
    /\ ImplicitStep(c, flags.tid, "implicit __tid__", "tname")
    /\ ChkFrame

CheckImplicitTname(c) ==
    /\ chk[c].pc = "tname"
    /\ ImplicitStep(c, flags.tname, "implicit __tname__", "id")
    /\ ChkFrame

CheckImplicitId(c) ==
    /\ chk[c].pc = "id"
    /\ ImplicitStep(c, flags.id, "implicit id", "field_name")
    /\ ChkFrame

\* Variant of FieldNameStep that accepts the name of any declared field
\* (set membership instead of position).
FieldNameStepAnyOrder(c) ==
    LET s == chk[c]
        f == Fields[s.k]
    IN
    IF s.idx >= Len(s.shape)
    THEN chk' = [chk EXCEPT ![c].pc = "done", ![c].result = IndexPanic,
                            ![c].trace = Append(@, Access(f.name, s.idx))]
    ELSE IF s.shape[s.idx + 1].name \notin {Fields[j].name : j \in 1..Len(Fields)}
    THEN chk' = [chk EXCEPT ![c].pc = "done",
                            ![c].el = s.shape[s.idx + 1],
                            ![c].result = wrong_field(f.name, s.shape[s.idx + 1].name),
                            ![c].trace = Append(@, Access(f.name, s.idx))]
    ELSE chk' = [chk EXCEPT ![c].pc = "field_type",
                            ![c].el = s.shape[s.idx + 1],
                            ![c].idx = s.idx + 1,
                            ![c].trace = Append(@, Access(f.name, s.idx))]

\* Variant of FieldNameStep that runs the nested type check before the name
\* comparison.
FieldNameStepTypeFirst(c) ==
    LET s == chk[c]
        f == Fields[s.k]
    IN
    IF s.idx >= Len(s.shape)
    THEN chk' = [chk EXCEPT ![c].pc = "done", ![c].result = IndexPanic,
                            ![c].trace = Append(@, Access(f.name, s.idx))]
    ELSE IF check_scalar(f.ty, s.shape[s.idx + 1].type_pos) # Ok
    THEN chk' = [chk EXCEPT ![c].pc = "done",
                            ![c].el = s.shape[s.idx + 1],
                            ![c].result = check_scalar(f.ty, s.shape[s.idx + 1].type_pos),
                            ![c].trace = Append(@, Access(f.name, s.idx))]
    ELSE IF s.shape[s.idx + 1].name # f.name
    THEN chk' = [chk EXCEPT ![c].pc = "done",
                            ![c].el = s.shape[s.idx + 1],
                            ![c].result = wrong_field(f.name, s.shape[s.idx + 1].name),
                            ![c].trace = Append(@, Access(f.name, s.idx))]
    ELSE chk' = [chk EXCEPT ![c].pc = "field_type",
                            ![c].el = s.shape[s.idx + 1],
                            ![c].idx = s.idx + 1,
                            ![c].trace = Append(@, Access(f.name, s.idx))]

\* let el = &shape.elements[idx];
\* if el.name != "<field>" { return Err(ctx.wrong_field("<field>", &el.name)); }
\* idx += 1;
FieldNameStep(c) ==
    LET s == chk[c]
        f == Fields[s.k]
    IN
    IF s.idx >= Len(s.shape)
    THEN chk' = [chk EXCEPT ![c].pc = "done", ![c].result = IndexPanic,
                            ![c].trace = Append(@, Access(f.name, s.idx))]
    ELSE IF s.shape[s.idx + 1].name # f.name
    THEN chk' = [chk EXCEPT ![c].pc = "done",
                            ![c].el = s.shape[s.idx + 1],
                            ![c].result = wrong_field(f.name, s.shape[s.idx + 1].name),
                            ![c].trace = Append(@, Access(f.name, s.idx))]
    ELSE chk' = [chk EXCEPT ![c].pc = "field_type",
                            ![c].el = s.shape[s.idx + 1],
                            ![c].idx = s.idx + 1,
                            ![c].trace = Append(@, Access(f.name, s.idx))]

CheckFieldName(c) ==
    /\ chk[c].pc = "field_name"
    /\ FieldNameStep(c)
    /\ ChkFrame

\* <T as Queryable>::check_descriptor(ctx, el.type_pos)?;
FieldTypeStep(c) ==
    LET s == chk[c]
        r == check_scalar(Fields[s.k].ty, s.el.type_pos)
    IN
    IF r # Ok
    THEN ChkReturn(c, r)
    ELSE IF s.k < Len(Fields)
    THEN chk' = [chk EXCEPT ![c].pc = "field_name", ![c].k = s.k + 1]
    ELSE chk' = [chk EXCEPT ![c].pc = "len"]

CheckFieldType(c) ==
    /\ chk[c].pc = "field_type"
    /\ FieldTypeStep(c)
    /\ ChkFrame

\* Variant of LenStep that only rejects a shape shorter than idx.
LenStepAtLeast(c) ==
    LET s == chk[c] IN
    IF Len(s.shape) < s.idx
    THEN ChkReturn(c, field_number(Len(s.shape), s.idx))
    ELSE ChkReturn(c, Ok)

\* if shape.elements.len() != idx { return Err(ctx.field_number(len, idx)); }
\* Ok(())
LenStep(c) ==
    LET s == chk[c] IN
    IF Len(s.shape) # s.idx
    THEN ChkReturn(c, field_number(Len(s.shape), s.idx))
    ELSE ChkReturn(c, Ok)

CheckLen(c) ==
    /\ chk[c].pc = "len"
    /\ LenStep(c)
    /\ ChkFrame

(***************************************************************************)
(* The shapes a server may advertise.                                      *)
(***************************************************************************)
\* The implicit elements a server prepends for the flags f, in its order.
ImplicitEls(f) ==
    (IF f.tid THEN <<Elem("__tid__", PosOf("uuid"), TRUE)>> ELSE <<>>)
    \o (IF f.tname THEN <<Elem("__tname__", PosOf("str"), TRUE)>> ELSE <<>>)
    \o (IF f.id THEN <<Elem("id", PosOf("uuid"), TRUE)>> ELSE <<>>)

\* The elements of `select IsAStruct { name, number, is_cool }`.
VisibleEls ==
    << Elem("name", PosOf("str"), FALSE),
       Elem("number", PosOf("int16"), FALSE),
       Elem("is_cool", PosOf("bool"), FALSE) >>

Perms == {p \in [1..3 -> 1..3] : {p[i] : i \in 1..3} = 1..3}
Permuted(p) == [i \in 1..3 |-> VisibleEls[p[i]]]

\* Elements that may stand in for any element of a shape.
Pool ==
    Range(VisibleEls) \cup Range(ImplicitEls([tid |-> TRUE, tname |-> TRUE, id |-> TRUE]))
    \cup { Elem("name", PosOf("int16"), FALSE),     \* right name, wrong type
           Elem("id", PosOf("uuid"), FALSE),        \* a visible id
           Elem("name", PosOf("str"), TRUE),        \* a field flagged implicit
           Elem("number", BadPos, FALSE),           \* a dangling type position
           Elem("is_cool", ShapePos, FALSE) }       \* a field typed as the shape

SurplusPool == { Elem("id", PosOf("uuid"), FALSE), Elem("name", PosOf("str"), FALSE) }

RECURSIVE SurplusSeqs(_)
SurplusSeqs(n) ==
    IF n = 0 THEN {<<>>}
    ELSE LET shorter == SurplusSeqs(n - 1) IN
         shorter \cup {Append(s, e) : s \in {t \in shorter : Len(t) = n - 1}, e \in SurplusPool}

Replaced(s) == {[s EXCEPT ![i] = e] : i \in 1..Len(s), e \in Pool}
Prefixes(s) == {SubSeq(s, 1, n) : n \in 0..Len(s)}

\* A server shape: the implicit prefix of some negotiation followed by the
\* three fields in some order, or such a shape with one element replaced;
\* then up to MaxSurplus further elements; cut at any length.
Shapes ==
    LET bases == {ImplicitEls(sf) \o Permuted(p) : sf \in FlagSets, p \in Perms}
        edited == UNION {Replaced(s) : s \in bases}
        full == {s \o x : s \in bases \cup edited, x \in SurplusSeqs(MaxSurplus)}
    IN UNION {Prefixes(s) : s \in full}

Catalog(shape) == [i \in 1..Len(ScalarNames) |-> BaseScalar(ScalarNames[i])]
                    \o <<ObjectShape(shape)>>

NoRow == [count |-> 0, elems |-> <<>>]

(***************************************************************************)
(* decode, one action per call it makes.                                   *)
(*                                                                         *)
(* A row buffer is its element-count header and the elements its bytes     *)
(* hold; fewer elements than the header says is a truncated buffer.  An    *)
(* element is "absent" (the reserved length), or a payload that the        *)
(* scalar decoder of the field reading it accepts ("ok") or rejects        *)
(* ("bad").                                                                *)
(***************************************************************************)
Payloads == {"ok", "bad", "absent"}

Underflow == Res("Underflow", "", "", 0, 0)
ObjectSizeMismatch == Res("ObjectSizeMismatch", "", "", 0, 0)
MissingRequiredField == Res("MissingRequiredField", "", "", 0, 0)
InvalidValue(ty) == Res("InvalidValue", "", ty, 0, 0)

\* A local not yet assigned; a decoded value, marked with the position of
\* the element it was decoded from; the absence value of an Option field.
Unset == [state |-> "unset", from |-> 0]
Value(pos) == [state |-> "value", from |-> pos]
NoneValue(pos) == [state |-> "none", from |-> pos]

NoStruct == [built |-> FALSE, name |-> Unset, number |-> Unset, is_cool |-> Unset]

DcdStart(pc) ==
    [pc |-> pc, nfields |-> 0, pos |-> 0, k |-> 1, el |-> "",
     locals |-> [name |-> Unset, number |-> Unset, is_cool |-> Unset],
     result |-> Pending, ret |-> NoStruct, ops |-> <<>>]
DcdOff == DcdStart("off")

Op(what, pos) == [what |-> what, pos |-> pos]

DcdReturn(r) == dcd' = [dcd EXCEPT !.pc = "done", !.result = r]
\* decode takes `decoder: &Decoder` and `buf: &[u8]`: nothing but the call's
\* own cursor and locals changes.
DcdFrame == UNCHANGED <<descriptors, flags, type_pos, buf, chk>>

\* DecodeTupleLike::new_object(buf, nfields): the header must say nfields.
new_object(b, nfields) == IF b.count = nfields THEN Ok ELSE ObjectSizeMismatch

\* DecodeTupleLike::read at cursor position pos: the next element of the
\* buffer, Underflow when its bytes are exhausted.
CanRead(b, pos) == pos < Len(b.elems)

\* Queryable::decode_optional for the field f on the element el read.
decode_optional(f, el, pos) ==
    IF el = "absent"
    THEN IF f.optional THEN [res |-> Ok, val |-> NoneValue(pos)]
         ELSE [res |-> MissingRequiredField, val |-> Unset]
    ELSE IF el = "bad" THEN [res |-> InvalidValue(f.ty), val |-> Unset]
    ELSE [res |-> Ok, val |-> Value(pos)]

\* Variant of NFields that leaves has_implicit_tname out of the sum.
NFieldsNoTname ==
    3 + (IF flags.id THEN 1 ELSE 0) + (IF flags.tid THEN 1 ELSE 0)

\* let nfields = 3usize + if decoder.has_implicit_id {1} else {0}
\*     + if decoder.has_implicit_tid {1} else {0}
\*     + if decoder.has_implicit_tname {1} else {0};
NFields ==
    3 + (IF flags.id THEN 1 ELSE 0) + (IF flags.tid THEN 1 ELSE 0)
      + (IF flags.tname THEN 1 ELSE 0)

\* let mut elements = DecodeTupleLike::new_object(buf, nfields)?;
DecodeOpen ==
    /\ dcd.pc = "open"
    /\ IF new_object(buf, NFields) = Ok
       THEN dcd' = [dcd EXCEPT !.pc = "skip_tid", !.nfields = NFields, !.pos = 0,
                               !.ops = Append(@, Op("open", 0))]
       ELSE dcd' = [dcd EXCEPT !.pc = "done", !.nfields = NFields,
                               !.result = new_object(buf, NFields),
                               !.ops = Append(@, Op("open", 0))]
    /\ DcdFrame

\* Variant of SkipStep that tests the flag but leaves the cursor where it is.
SkipStepNoConsume(isSet, what, next) ==
    IF ~isSet
    THEN dcd' = [dcd EXCEPT !.pc = next]
    ELSE IF ~CanRead(buf, dcd.pos)
    THEN dcd' = [dcd EXCEPT !.pc = "done", !.result = Underflow,
                            !.ops = Append(@, Op(what, dcd.pos))]
    ELSE dcd' = [dcd EXCEPT !.pc = next,
                            !.ops = Append(@, Op(what, dcd.pos))]

\* if decoder.has_implicit_X { elements.skip_element()?; }
SkipStep(isSet, what, next) ==
    IF ~isSet
    THEN dcd' = [dcd EXCEPT !.pc = next]
    ELSE IF ~CanRead(buf, dcd.pos)
    THEN dcd' = [dcd EXCEPT !.pc = "done", !.result = Underflow,
                            !.ops = Append(@, Op(what, dcd.pos))]
    ELSE dcd' = [dcd EXCEPT !.pc = next, !.pos = dcd.pos + 1,
                            !.ops = Append(@, Op(what, dcd.pos))]

DecodeSkipTid ==
    /\ dcd.pc = "skip_tid"
    /\ SkipStep(flags.tid, "skip tid", "skip_tname")
    /\ DcdFrame

DecodeSkipTname ==
    /\ dcd.pc = "skip_tname"
    /\ SkipStep(flags.tname, "skip tname", "skip_id")
    /\ DcdFrame

DecodeSkipId ==
    /\ dcd.pc = "skip_id"
    /\ SkipStep(flags.id, "skip id", "read")
    /\ DcdFrame

\* elements.read()?   (the argument of decode_optional for the k-th field)
ReadStep ==
    IF ~CanRead(buf, dcd.pos)
    THEN dcd' = [dcd EXCEPT !.pc = "done", !.result = Underflow,
                            !.ops = Append(@, Op("read " \o Fields[dcd.k].name, dcd.pos))]
    ELSE dcd' = [dcd EXCEPT !.pc = "decode", !.el = buf.elems[dcd.pos + 1],
                            !.pos = dcd.pos + 1,
                            !.ops = Append(@, Op("read " \o Fields[dcd.k].name, dcd.pos))]

DecodeRead ==
    /\ dcd.pc = "read"
    /\ ReadStep
    /\ DcdFrame

\* Variant of FieldStep that keeps going with an unset local when the
\* field's decoder fails.
FieldStepSwallow ==
    LET f == Fields[dcd.k]
        d == decode_optional(f, dcd.el, dcd.pos - 1)
    IN
    dcd' = [dcd EXCEPT !.pc = IF dcd.k < Len(Fields) THEN "read" ELSE "build",
                       !.k = IF dcd.k < Len(Fields) THEN dcd.k + 1 ELSE dcd.k,
                       !.locals = [@ EXCEPT ![f.name] = d.val],
                       !.ops = Append(@, Op("decode " \o f.name, dcd.pos - 1))]

\* let <field> = Queryable::decode_optional(decoder, <element read>)?;
FieldStep ==
    LET f == Fields[dcd.k]
        d == decode_optional(f, dcd.el, dcd.pos - 1)
    IN
    IF d.res # Ok
    THEN dcd' = [dcd EXCEPT !.pc = "done", !.result = d.res,
                            !.ops = Append(@, Op("decode " \o f.name, dcd.pos - 1))]
    ELSE dcd' = [dcd EXCEPT !.pc = IF dcd.k < Len(Fields) THEN "read" ELSE "build",
                            !.k = IF dcd.k < Len(Fields) THEN dcd.k + 1 ELSE dcd.k,
                            !.locals = [@ EXCEPT ![f.name] = d.val],
                            !.ops = Append(@, Op("decode " \o f.name, dcd.pos - 1))]

DecodeField ==
    /\ dcd.pc = "decode"
    /\ FieldStep
    /\ DcdFrame

\* Ok(IsAStruct { name, number, is_cool })
DecodeBuild ==
    /\ dcd.pc = "build"
    /\ dcd' = [dcd EXCEPT !.pc = "done", !.result = Ok,
                          !.ret = [built |-> TRUE, name |-> dcd.locals.name,
                                   number |-> dcd.locals.number,
                                   is_cool |-> dcd.locals.is_cool]]
    /\ DcdFrame

(***************************************************************************)
(* The rows a server may send.                                             *)
(***************************************************************************)
RECURSIVE SeqsUpTo(_, _)
SeqsUpTo(S, n) ==
    IF n = 0 THEN {<<>>}
    ELSE LET shorter == SeqsUpTo(S, n - 1) IN
         shorter \cup {Append(s, e) : s \in {t \in shorter : Len(t) = n - 1}, e \in S}

\* Any elements up to MaxRowLen; the header counts them, or counts one more
\* than the bytes hold (a buffer cut short).
Rows ==
    {[count |-> Len(es) + more, elems |-> es] : es \in SeqsUpTo(Payloads, MaxRowLen), more \in {0, 1}}

(***************************************************************************)
(* SpecDecode: one decode call over every row.                             *)
(***************************************************************************)
InitDecode ==
    /\ flags \in FlagSets
    /\ descriptors = Catalog(VisibleEls)
    /\ type_pos = ShapePos
    /\ buf \in Rows
    /\ chk = [c \in CheckCalls |-> ChkStart("off")]
    /\ dcd = DcdStart("open")

DecodeStep ==
    \/ DecodeOpen
    \/ DecodeSkipTid
    \/ DecodeSkipTname
    \/ DecodeSkipId
    \/ DecodeRead
    \/ DecodeField
    \/ DecodeBuild

NextDecode == DecodeStep

SpecDecode == InitDecode /\ [][NextDecode]_vars

(***************************************************************************)
(* SpecCheck: one check_descriptor call over every shape.                  *)
(***************************************************************************)
InitCheck ==
    /\ flags \in FlagSets
    /\ \E s \in Shapes : descriptors = Catalog(s)
    /\ type_pos \in {PosOf("str"), ShapePos, BadPos}
    /\ buf = NoRow
    /\ chk = [c \in CheckCalls |-> IF c = "first" THEN ChkStart("get") ELSE ChkStart("off")]
    /\ dcd = DcdOff

CheckStep(c) ==
    \/ CheckGet(c)
    \/ CheckMatch(c)
    \/ CheckImplicitTid(c)
    \/ CheckImplicitTname(c)
    \/ CheckImplicitId(c)
    \/ CheckFieldName(c)
    \/ CheckFieldType(c)
    \/ CheckLen(c)

NextCheck == \E c \in CheckCalls : CheckStep(c)

SpecCheck == InitCheck /\ [][NextCheck]_vars

(***************************************************************************)
(* Spec: two check_descriptor calls and one decode call over the same      *)
(* catalog and the same flags, their steps interleaved in any order.       *)
(***************************************************************************)
\* Shapes as a server builds them for some negotiation, in field order or
\* with the first two fields exchanged, and the same cut one element short.
SharedShapes ==
    LET built == {ImplicitEls(sf) \o VisibleEls : sf \in FlagSets}
                 \cup {ImplicitEls(sf) \o Permuted(<<2, 1, 3>>) : sf \in FlagSets}
    IN built \cup {SubSeq(s, 1, Len(s) - 1) : s \in built}

\* Rows of 3 to 6 elements, every element present or the last one absent.
SharedRows ==
    {[count |-> n, elems |-> [i \in 1..n |-> IF i = n THEN last ELSE "ok"]] :
        n \in 3..6, last \in {"ok", "absent"}}

Init ==
    /\ flags \in FlagSets
    /\ \E s \in SharedShapes : descriptors = Catalog(s)
    /\ type_pos = ShapePos
    /\ buf \in SharedRows
    /\ chk = [c \in CheckCalls |-> ChkStart("get")]
    /\ dcd = DcdStart("open")

Next ==
    \/ \E c \in CheckCalls : CheckStep(c)
    \/ DecodeStep

Spec == Init /\ [][Next]_vars

(***************************************************************************)
(* Properties of check_descriptor.                                         *)
(***************************************************************************)
FieldNames == {Fields[k].name : k \in 1..Len(Fields)}

\* The comparisons of declared fields a call has made so far, in order.
FieldAccesses(c) == SelectSeq(chk[c].trace, LAMBDA a : a.what \in FieldNames)
\* The implicit-prefix inspections a call has made so far, in order.
ImplicitAccesses(c) == SelectSeq(chk[c].trace, LAMBDA a : a.what \notin FieldNames)

\* The implicit kinds whose flag is set, in the order tid, tname, id.
SetKinds(f) ==
    (IF f.tid THEN <<"implicit __tid__">> ELSE <<>>)
    \o (IF f.tname THEN <<"implicit __tname__">> ELSE <<>>)
    \o (IF f.id THEN <<"implicit id">> ELSE <<>>)

NamesOf(s) == [i \in 1..Len(s) |-> s[i].name]
DeclaredNames == [k \in 1..Len(Fields) |-> Fields[k].name]

\* The names of the catalog shape's elements after the implicit prefix.
VisibleNames ==
    LET els == get(ShapePos).elements IN
    NamesOf(SubSeq(els, NumSet(flags) + 1, Len(els)))

\* C1: check_descriptor is order-sensitive.  The declared fields are compared
\* one by one, in declaration order, the k-th with the element at position
\* (number of set flags) + k - 1; the comparison that finds a different name
\* is the last one and the call returns WrongField{unexpected: the element's
\* name, expected: the declared name}; a shape whose names are a permutation
\* of the declared names, other than the declared order, is never accepted.
C1_OrderSensitive ==
    \A c \in CheckCalls :
        LET s == chk[c]
            fa == FieldAccesses(c)
        IN
        /\ \A j \in 1..Len(fa) :
              /\ j <= Len(Fields)
              /\ fa[j].what = Fields[j].name
              /\ fa[j].idx = NumSet(flags) + j - 1
              /\ (fa[j].idx < Len(s.shape) /\ s.shape[fa[j].idx + 1].name # Fields[j].name)
                    => /\ j = Len(fa)
                       /\ s.pc = "done"
                       /\ s.result = wrong_field(Fields[j].name, s.shape[fa[j].idx + 1].name)
        /\ (/\ s.pc = "done"
            /\ type_pos = ShapePos
            /\ Len(VisibleNames) = Len(Fields)
            /\ Range(VisibleNames) = FieldNames
            /\ VisibleNames # DeclaredNames)
              => s.result # Ok

\* A call given the fields in the order (number, name, is_cool) has returned
\* WrongField{unexpected: "number", expected: "name"}.
C1_Witness ==
    \E c \in CheckCalls :
        /\ chk[c].pc = "done"
        /\ NamesOf(chk[c].shape) = <<"number", "name", "is_cool">>
        /\ chk[c].result = wrong_field("name", "number")

\* Every check before the element count passes on the shape els under f.
AllFieldChecksPass(els, f) ==
    LET n == NumSet(f) IN
    /\ Len(els) >= n + Len(Fields)
    /\ \A i \in 1..n : els[i].flag_implicit
    /\ \A k \in 1..Len(Fields) :
          /\ els[n + k].name = Fields[k].name
          /\ check_scalar(Fields[k].ty, els[n + k].type_pos) = Ok

\* C2: when every implicit-prefix check and every name and type check has
\* passed, the shape is accepted only if it has exactly (set flags + 3)
\* elements; with more it fails FieldCountMismatch{actual: its length,
\* expected: set flags + 3}.  No accepted shape has another length.
C2_FieldCount ==
    \A c \in CheckCalls :
        LET s == chk[c]
            els == get(ShapePos).elements
            want == NumSet(flags) + 3
        IN
        (s.pc = "done" /\ type_pos = ShapePos) =>
            /\ AllFieldChecksPass(els, flags) =>
                  /\ (Len(els) = want) => s.result = Ok
                  /\ (Len(els) # want) => s.result = field_number(Len(els), want)
            /\ (s.result = Ok) => Len(els) = want

\* A 4-element shape whose first three elements match, no flag set, has
\* failed FieldCountMismatch{actual: 4, expected: 3}.
C2_Witness ==
    \E c \in CheckCalls :
        /\ chk[c].pc = "done"
        /\ NumSet(flags) = 0
        /\ Len(chk[c].shape) = 4
        /\ chk[c].result = field_number(4, 3)

\* C3: the implicit prefix is walked in the order tid, tname, id.  The j-th
\* inspection is of the j-th kind whose flag is set, at element j - 1; an
\* element there that is not flag_implicit ends the call with the 'expected
\* implicit <kind>' mismatch of exactly that kind; kinds whose flag is not
\* set are never inspected; the first declared field is compared at
\* idx = number of set flags.
C3_ImplicitPrefix ==
    \A c \in CheckCalls :
        LET s == chk[c]
            ia == ImplicitAccesses(c)
            fa == FieldAccesses(c)
            kinds == SetKinds(flags)
        IN
        /\ Len(ia) <= Len(kinds)
        /\ \A j \in 1..Len(ia) :
              /\ ia[j] = Access(kinds[j], j - 1)
              /\ s.trace[j] = ia[j]
              /\ (j - 1 < Len(s.shape) /\ ~s.shape[j].flag_implicit)
                    => /\ j = Len(s.trace)
                       /\ s.pc = "done"
                       /\ s.result = expected(kinds[j])
              /\ (j - 1 < Len(s.shape) /\ s.shape[j].flag_implicit)
                    => s.result # expected(kinds[j])
        /\ (s.result.kind = "ExpectedImplicit")
              => /\ ia # <<>>
                 /\ s.result = expected(ia[Len(ia)].what)
                 /\ ~s.shape[Len(ia)].flag_implicit
        /\ (fa # <<>>) => /\ Len(ia) = Len(kinds)
                          /\ fa[1].idx = NumSet(flags)
        /\ (s.pc \in {"field_name", "field_type", "len"}) => s.idx >= NumSet(flags)

\* With tid and id set and tname not set the call has inspected elements 0
\* and 1 as tid and id and compared the field name at idx 2.
C3_Witness ==
    \E c \in CheckCalls :
        /\ flags = [tid |-> TRUE, tname |-> FALSE, id |-> TRUE]
        /\ Len(chk[c].trace) >= 3
        /\ SubSeq(chk[c].trace, 1, 3) =
              << Access("implicit __tid__", 0), Access("implicit id", 1), Access("name", 2) >>

\* The outcome of the j-th check of the fixed order on the shape els under
\* f: after the n implicit inspections come, for each declared field, its
\* name comparison and then its nested type check, and the element count
\* last.  "Absent" is the outcome of a check whose element does not exist.
Absent == Res("Absent", "", "", 0, 0)
CheckOutcome(els, f, j) ==
    LET n == NumSet(f)
        k == (j - n + 1) \div 2
    IN
    IF j <= n
    THEN IF j > Len(els) THEN Absent
         ELSE IF els[j].flag_implicit THEN Ok ELSE expected(SetKinds(f)[j])
    ELSE IF j > n + 2 * Len(Fields)
    THEN IF Len(els) = n + Len(Fields) THEN Ok
         ELSE field_number(Len(els), n + Len(Fields))
    ELSE IF n + k > Len(els) THEN Absent
    ELSE IF (j - n) % 2 = 1
    THEN IF els[n + k].name = Fields[k].name THEN Ok
         ELSE wrong_field(Fields[k].name, els[n + k].name)
    ELSE check_scalar(Fields[k].ty, els[n + k].type_pos)

NumChecks(f) == NumSet(f) + 2 * Len(Fields) + 1

\* The first check of the fixed order that does not pass, 0 if all pass.
FirstNotPassing(els, f) ==
    LET bad == {j \in 1..NumChecks(f) : CheckOutcome(els, f, j) # Ok} IN
    IF bad = {} THEN 0 ELSE CHOOSE j \in bad : \A i \in bad : j <= i

\* The elements inspected by the checks 1..j: one per implicit inspection
\* and one per name comparison.
Inspected(f, j) ==
    IF j <= NumSet(f) THEN j
    ELSE IF j > NumSet(f) + 2 * Len(Fields) THEN NumSet(f) + Len(Fields)
    ELSE NumSet(f) + ((j - NumSet(f) + 1) \div 2)

\* C9: check_descriptor reports the first failing check of one fixed order
\* and nothing after it: catalog lookup (BadPosition), descriptor kind
\* (WrongType), the implicit prefix tid, tname, id, then per declared field
\* its name (WrongField) and only then its nested type check, and the
\* element count (FieldCountMismatch) last.  The result is the mismatch of
\* the first check that fails, no element behind that check is inspected,
\* and Ok is returned only when every check passes.
C9_FirstFailingCheck ==
    \A c \in CheckCalls :
        LET s == chk[c] IN
        (s.pc = "done") =>
            IF ~InCatalog(type_pos) THEN s.result = BadPosition /\ s.trace = <<>>
            ELSE IF get(type_pos).tag # "ObjectShape"
            THEN s.result = wrong_type(get(type_pos), "str") /\ s.trace = <<>>
            ELSE LET els == get(type_pos).elements
                     j == FirstNotPassing(els, flags)
                 IN
                 /\ (j = 0) => s.result = Ok
                 /\ (j # 0 /\ CheckOutcome(els, flags, j) # Absent)
                       => /\ s.result = CheckOutcome(els, flags, j)
                          /\ Len(s.trace) = Inspected(flags, j)
                 /\ (s.result = Ok) => j = 0

\* A shape whose first visible element has both a wrong name and a wrong
\* type, and which carries a surplus element, has failed WrongField.
C9_Witness ==
    \E c \in CheckCalls :
        LET s == chk[c]
            n == NumSet(flags)
        IN
        /\ s.pc = "done"
        /\ Len(s.shape) = n + Len(Fields) + 1
        /\ \A i \in 1..n : s.shape[i].flag_implicit
        /\ s.shape[n + 1].name # "name"
        /\ check_scalar("str", s.shape[n + 1].type_pos) # Ok
        /\ s.result = wrong_field("name", s.shape[n + 1].name)

\* C10: check_descriptor is total over untrusted shapes: it returns Ok or a
\* DescriptorMismatch and never indexes elements at idx >= elements.len().
C10_Total ==
    \A c \in CheckCalls :
        /\ chk[c].result.kind # "Panic"
        /\ \A i \in 1..Len(chk[c].trace) : chk[c].trace[i].idx < Len(chk[c].shape)

(***************************************************************************)
(* Properties of decode.                                                   *)
(***************************************************************************)
\* The operations a complete decode performs under f, with the cursor
\* position of each.
ExpectedOps(f) ==
    LET n == NumSet(f)
        skips == (IF f.tid THEN <<"skip tid">> ELSE <<>>)
                 \o (IF f.tname THEN <<"skip tname">> ELSE <<>>)
                 \o (IF f.id THEN <<"skip id">> ELSE <<>>)
    IN
    <<Op("open", 0)>>
    \o [i \in 1..n |-> Op(skips[i], i - 1)]
    \o << Op("read name", n),        Op("decode name", n),
          Op("read number", n + 1),  Op("decode number", n + 1),
          Op("read is_cool", n + 2), Op("decode is_cool", n + 2) >>

IsPrefix(s, t) == Len(s) <= Len(t) /\ \A i \in 1..Len(s) : s[i] = t[i]

\* C4: decode opens the cursor with nfields = 3 + (number of set flags),
\* then skips once per set flag in the order tid, tname, id, then reads
\* three times, assigning name, number, is_cool in that order; a successful
\* decode has consumed exactly nfields elements.
C4_ConsumesExactly ==
    LET n == NumSet(flags) IN
    /\ IsPrefix(dcd.ops, ExpectedOps(flags))
    /\ (dcd.ops # <<>>) => dcd.nfields = 3 + n
    /\ dcd.pos <= 3 + n
    /\ (dcd.result = Ok) =>
          /\ dcd.ops = ExpectedOps(flags)
          /\ dcd.pos = dcd.nfields
          /\ dcd.pos = buf.count
          /\ dcd.ret = [built |-> TRUE, name |-> Value(n), number |-> Value(n + 1),
                        is_cool |-> Value(n + 2)]

\* With tid and id set and tname not set a decode has succeeded after two
\* skips and three reads, five elements in all.
C4_Witness ==
    /\ flags = [tid |-> TRUE, tname |-> FALSE, id |-> TRUE]
    /\ dcd.result = Ok
    /\ dcd.pos = 5
    /\ dcd.ops[2] = Op("skip tid", 0)
    /\ dcd.ops[3] = Op("skip id", 1)

\* The outcome of the j-th step of decode on the row b under f: opening the
\* cursor, one skip per set flag, then per field its read and its decode.
StepOutcome(b, f, j) ==
    LET n == NumSet(f)
        m == j - (n + 1)
        k == (m + 1) \div 2
    IN
    IF j = 1 THEN new_object(b, 3 + n)
    ELSE IF j <= n + 1 THEN (IF CanRead(b, j - 2) THEN Ok ELSE Underflow)
    ELSE IF ~CanRead(b, n + k - 1) THEN Underflow
    ELSE IF m % 2 = 1 THEN Ok
    ELSE decode_optional(Fields[k], b.elems[n + k], n + k - 1).res

NumSteps(f) == 1 + NumSet(f) + 2 * Len(Fields)

FirstFailingStep(b, f) ==
    LET bad == {j \in 1..NumSteps(f) : StepOutcome(b, f, j) # Ok} IN
    IF bad = {} THEN 0 ELSE CHOOSE j \in bad : \A i \in bad : j <= i

\* C5: decode is all-or-nothing.  It returns Ok with a value only if opening
\* the cursor, every skip, every read and every field decode succeeded; the
\* first step to fail ends the call with that step's error, no step after it
\* is performed, and no IsAStruct, filled or partly filled, is returned.
C5_AllOrNothing ==
    /\ (dcd.ret.built) => dcd.result = Ok
    /\ (dcd.result # Ok) => dcd.ret = NoStruct
    /\ (dcd.pc = "done") =>
          LET j == FirstFailingStep(buf, flags) IN
          /\ (j = 0) <=> (dcd.result = Ok)
          /\ (j = 0) => /\ dcd.ret.built
                        /\ \A k \in 1..Len(Fields) : dcd.ret[Fields[k].name].state = "value"
          /\ (j # 0) => /\ dcd.result = StepOutcome(buf, flags, j)
                        /\ Len(dcd.ops) = j

\* A decode has failed on the element of number after name was decoded, with
\* the element of is_cool still unread, and has returned no struct.
C5_Witness ==
    /\ dcd.pc = "done"
    /\ dcd.locals.name.state = "value"
    /\ dcd.result = InvalidValue("int16")
    /\ dcd.ret = NoStruct
    /\ Len(buf.elems) = dcd.nfields
    /\ dcd.pos = dcd.nfields - 1

\* The row has exactly the elements decode expects under the flags.
WellFormedRow == buf.count = 3 + NumSet(flags) /\ Len(buf.elems) = buf.count
\* The fields whose element in a well-formed row is the absent marker.
AbsentFields == {k \in 1..Len(Fields) : buf.elems[NumSet(flags) + k] = "absent"}

CheckAlone ==
    IF ~InCatalog(type_pos) THEN BadPosition
    ELSE IF get(type_pos).tag # "ObjectShape" THEN wrong_type(get(type_pos), "str")
    ELSE LET els == get(type_pos).elements
             j == FirstNotPassing(els, flags)
         IN IF j = 0 THEN Ok
            ELSE IF CheckOutcome(els, flags, j) = Absent THEN IndexPanic
            ELSE CheckOutcome(els, flags, j)

\* The result decode gives when run alone on the row and the flags.
DecodeAlone ==
    LET j == FirstFailingStep(buf, flags) IN
    IF j = 0 THEN Ok ELSE StepOutcome(buf, flags, j)

\* C7: check_descriptor and decode leave the catalog, the position, the
\* flags and the row buffer unchanged; two check_descriptor calls on the
\* same inputs give the same result and inspect the same elements; under any
\* interleaving each call gives the result it gives when run alone.
C7_Pure ==
    /\ [][/\ descriptors' = descriptors
          /\ flags' = flags
          /\ type_pos' = type_pos
          /\ buf' = buf]_vars
    /\ [](/\ (chk["first"].pc = "done" /\ chk["second"].pc = "done")
                => /\ chk["first"].result = chk["second"].result
                   /\ chk["first"].trace = chk["second"].trace
          /\ \A c \in CheckCalls : chk[c].pc = "done" => chk[c].result = CheckAlone
          /\ (dcd.pc = "done") => dcd.result = DecodeAlone)

\* Both check_descriptor calls and the decode call, their steps interleaved,
\* have finished, the shape accepted and the row decoded.
C7_Witness ==
    /\ chk["first"].pc = "done"
    /\ chk["second"].pc = "done"
    /\ dcd.pc = "done"
    /\ chk["first"].result = Ok
    /\ dcd.result = Ok

\* The cursor positions of the reads decode has made so far, in order.
ReadOps == SelectSeq(dcd.ops, LAMBDA o : o.what \in {"read " \o Fields[k].name : k \in 1..Len(Fields)})
\* The skips decode has made so far.
SkipOps == SelectSeq(dcd.ops, LAMBDA o : o.what \in {"skip tid", "skip tname", "skip id"})

\* C8: validator and decoder use the same index arithmetic.  Under the same
\* flags the number of skips before decode's first read is the idx at which
\* check_descriptor compares the first declared field, the k-th read is of
\* the position of the element compared with the k-th declared field, and
\* the nfields decode opens the cursor with is the only element count
\* check_descriptor accepts.
C8_SameIndexArithmetic ==
    \A c \in CheckCalls :
        LET fa == FieldAccesses(c) IN
        /\ \A k \in 1..Len(Fields) :
              (k <= Len(fa) /\ k <= Len(ReadOps))
                  => /\ fa[k].idx = ReadOps[k].pos
                     /\ fa[k].what = Fields[k].name
                     /\ ReadOps[k].what = "read " \o Fields[k].name
        /\ (fa # <<>> /\ ReadOps # <<>>) => Len(SkipOps) = fa[1].idx
        /\ (chk[c].result = Ok /\ dcd.ops # <<>>) => Len(chk[c].shape) = dcd.nfields
        /\ (chk[c].pc = "done" /\ dcd.ops # <<>> /\ AllFieldChecksPass(chk[c].shape, flags)
            /\ Len(chk[c].shape) # dcd.nfields) => chk[c].result.kind = "FieldCountMismatch"

\* Under two set flags a check has accepted the shape and the decode has
\* read the three fields at positions 2, 3 and 4.
C8_Witness ==
    /\ NumSet(flags) = 2
    /\ chk["first"].result = Ok
    /\ dcd.result = Ok
    /\ Len(ReadOps) = 3
    /\ ReadOps[1].pos = 2
    /\ FieldAccesses("first")[3].idx = 4


(***************************************************************************)
(* What an accepted shape looks like.                                      *)
(***************************************************************************)
\* The names a server gives the implicit elements of the kinds set in f, in
\* the order tid, tname, id.
ImplicitNames(f) == NamesOf(ImplicitEls(f))

\* C11 as stated: every shape check_descriptor accepts starts with exactly
\* the implicit elements of the set flags, the tid element before the tname
\* element before the id element, and its three following elements name,
\* number, is_cool are visible (not flag_implicit).
C11_ImplicitThenVisible ==
    \A c \in CheckCalls :
        LET s == chk[c]
            n == NumSet(flags)
        IN
        (s.result = Ok) =>
            /\ Len(s.shape) = n + Len(Fields)
            /\ \A i \in 1..n : s.shape[i].flag_implicit
            /\ NamesOf(SubSeq(s.shape, 1, n)) = ImplicitNames(flags)
            /\ \A k \in 1..Len(Fields) :
                  /\ s.shape[n + k].name = Fields[k].name
                  /\ ~s.shape[n + k].flag_implicit

\* C11, amended: every shape check_descriptor accepts has exactly (set
\* flags) + 3 elements, its first (set flags) elements are flag_implicit, and
\* the three following elements are named name, number, is_cool in that
\* order with the types str, int16, bool.  Which implicit kind an element of
\* the prefix is, and whether a following element is flag_implicit, is not
\* examined.
C11_AcceptedShape ==
    \A c \in CheckCalls :
        LET s == chk[c]
            n == NumSet(flags)
        IN
        (s.result = Ok) =>
            /\ Len(s.shape) = n + Len(Fields)
            /\ \A i \in 1..n : s.shape[i].flag_implicit
            /\ \A k \in 1..Len(Fields) :
                  /\ s.shape[n + k].name = Fields[k].name
                  /\ get(s.shape[n + k].type_pos) = BaseScalar(Fields[k].ty)
            /\ Len(ImplicitAccesses(c)) = n

\* A shape has been accepted under two set flags whose prefix elements are
\* flag_implicit but are not the elements of those two kinds.
C11_Witness ==
    \E c \in CheckCalls :
        /\ chk[c].result = Ok
        /\ NumSet(flags) = 2
        /\ chk[c].shape[1].flag_implicit
        /\ chk[c].shape[2].flag_implicit
        /\ NamesOf(SubSeq(chk[c].shape, 1, 2)) # ImplicitNames(flags)

====
